---------------------------- MODULE Spec2Model ----------------------------
(* The registration endpoint of TodoApp (routers/auth.py): POST /auth,     *)
(* the per-request session dependency get_db, and the bcrypt hashing       *)
(* policy, as a state machine over concurrently served requests.           *)
EXTENDS Naturals, Integers, Sequences, FiniteSets, TLC

(***************************************************************************)
(* Bounds                                                                  *)
(***************************************************************************)
\* Number of requests served in one behaviour.
NumRequests == 2

Requests == 1 .. NumRequests
SessionIds == 1 .. NumRequests

(***************************************************************************)
(* Program constants                                                       *)
(***************************************************************************)
\* status.HTTP_201_CREATED of the route decorator.
HTTP_201_CREATED == 201
\* Framework defaults: request validation error, unhandled exception.
HTTP_422 == 422
HTTP_500 == 500
\* No status was sent (the request is in flight or was cancelled before).
NoStatus == 0

\* class CreateUserRequest(BaseModel): six required str fields.
RequiredFields == {"username", "email", "first_name", "last_name", "password", "role"}

(***************************************************************************)
(* Text values.  A plaintext is a sequence of runs, each a character and   *)
(* how many times it repeats ('a'*72+'X' is two runs); a bcrypt hash is    *)
(* the record of the parts that the modular crypt format                   *)
(* "$2b$12$<salt><digest>" spells out.                                     *)
(***************************************************************************)
\* bcrypt reads only this many bytes of a secret.
BcryptMaxBytes == 72
\* The cost passlib's bcrypt scheme uses by default.
BcryptRounds == 12
\* passlib refuses to hash a secret longer than this.
MaxPasswordSize == 4096
\* The length of a bcrypt hash in modular crypt format.
McfLength == 60

\* The plaintext spelled by the characters of `cs`.
Chars(cs) == [runs |-> [i \in 1 .. Len(cs) |-> [c |-> cs[i], n |-> 1]]]

\* The plaintext `c` * `n` followed by the character `d`.
Repeated(c, n, d) == [runs |-> <<[c |-> c, n |-> n], [c |-> d, n |-> 1]>>]

Secret123 == Chars(<<"s", "e", "c", "r", "e", "t", "1", "2", "3">>)

\* A password holding a NUL byte.
NulPassword == Chars(<<"s", "e", "c", "\\0", "r", "e", "t">>)

\* A password one byte longer than bcrypt reads.
LongPassword == Repeated("a", BcryptMaxBytes, "X")

IsPlain(text) == "runs" \in DOMAIN text

RECURSIVE RunBytes(_)
\* The number of bytes of a sequence of runs.
RunBytes(runs) == IF runs = <<>> THEN 0 ELSE Head(runs).n + RunBytes(Tail(runs))

\* The number of bytes of a text.
ByteLen(text) == IF IsPlain(text) THEN RunBytes(text.runs) ELSE McfLength

RECURSIVE TakeBytes(_, _)
\* The first k bytes of a sequence of runs.
TakeBytes(runs, k) ==
    IF runs = <<>> \/ k = 0 THEN <<>>
    ELSE LET h == Head(runs) IN
         IF h.n <= k THEN <<h>> \o TakeBytes(Tail(runs), k - h.n)
         ELSE <<[c |-> h.c, n |-> k]>>

\* What bcrypt reads of a secret: its first 72 bytes.
BcryptKey(secret) ==
    IF IsPlain(secret) THEN [runs |-> TakeBytes(secret.runs, BcryptMaxBytes)] ELSE secret

\* The digest of what bcrypt reads of the secret, under a salt and a cost: a
\* free constructor of these three (no two of them collide).
Digest(secret, salt, rounds) ==
    [key |-> BcryptKey(secret), salt |-> salt, rounds |-> rounds]

\* The hash bcrypt yields for `secret` under `salt`, in modular crypt format.
BcryptOf(secret, salt) ==
    [ident |-> "$2b$", rounds |-> BcryptRounds, salt |-> salt,
     digest |-> Digest(secret, salt, BcryptRounds)]

\* What bcrypt_context.hash raises for a secret ("none": it hashes): passlib
\* refuses a secret that is too long, bcrypt one that contains NUL.
HashError(secret) ==
    IF ByteLen(secret) > MaxPasswordSize THEN "PasswordSizeError"
    ELSE IF IsPlain(secret) /\ \E i \in 1 .. Len(secret.runs) : secret.runs[i].c = "\\0"
    THEN "NullPasswordError"
    ELSE "none"

HashRaises(secret) == HashError(secret) # "none"

\* A deliberately broken policy: stores the secret as given.
BcryptHashPlain(secret, salt) == secret
\* The salts a call of bcrypt_context.hash may draw: the call takes random
\* bytes, so two calls may or may not draw the same one.
Salts == {"saltA", "saltB"}

\* bcrypt_context.hash(secret), with the salt generated for this call.
BcryptHash(secret, salt) == BcryptOf(secret, salt)

\* bcrypt_context.verify(secret, hash): re-derive the digest under the hash's
\* own salt and cost, for any of the bcrypt idents; so every secret with the
\* same first 72 bytes verifies.  (FALSE also stands for the cases where
\* passlib raises: a secret it refuses, a string that is no hash.)
BcryptVerify(secret, hash) ==
    /\ ~IsPlain(hash)
    /\ ~HashRaises(secret)
    /\ hash.ident \in {"$2a$", "$2b$", "$2y$"}
    /\ hash.digest = Digest(secret, hash.salt, hash.rounds)

(***************************************************************************)
(* Request payloads: JSON objects, as functions from the keys present to   *)
(* JSON values tagged with their type.                                     *)
(***************************************************************************)
JStr(v) == [type |-> "str", v |-> v]
JBool(b) == [type |-> "bool", bool |-> b]
JNull == [type |-> "null"]

BasePayload ==
    [username |-> JStr("alice"), email |-> JStr("a@x.com"), first_name |-> JStr("A"),
     last_name |-> JStr("L"), password |-> JStr(Secret123), role |-> JStr("user")]

\* `p` without key `k`.
Without(p, k) == [f \in (DOMAIN p) \ {k} |-> p[f]]

\* `p` with key `k` set to `v` (added when absent).
With(p, k, v) == [f \in (DOMAIN p) \cup {k} |-> IF f = k THEN v ELSE p[f]]

\* The example under another username and email.
As(p, username, email) ==
    With(With(p, "username", JStr(username)), "email", JStr(email))

\* The spec's example; a second user, who also sends a key the schema does
\* not declare, with a password longer than bcrypt reads; a password bcrypt
\* refuses.
ValidPayloads ==
    { BasePayload,
      With(With(As(BasePayload, "bob", "b@x.com"), "password", JStr(LongPassword)),
           "is_active", JBool(FALSE)),
      With(BasePayload, "password", JStr(NulPassword)) }

\* Required keys left out of the bodies the model sends.
MissingKeys == {"password", "username"}

\* The example with one required key left out, or with a password that is
\* present but no string.
InvalidPayloads ==
    { Without(BasePayload, k) : k \in MissingKeys }
        \cup { With(BasePayload, "password", JNull) }

Payloads == ValidPayloads \cup InvalidPayloads

NoPayload == [none |-> TRUE]

\* pydantic's validation of CreateUserRequest: every declared field is present
\* and a string (a null, a number, a boolean or a list is not coerced).
Validates(p) ==
    \A f \in RequiredFields : f \in DOMAIN p /\ p[f].type = "str"

\* The parsed CreateUserRequest: the declared fields only, extras dropped.
CreateUserRequest(p) == [f \in RequiredFields |-> p[f].v]

(***************************************************************************)
(* The users table.                                                        *)
(***************************************************************************)
NoModel == [none |-> TRUE]

\* A broken handler: the record is built inactive.
UsersInactive(req, hashed) ==
    [email |-> req.email, username |-> req.username,
     first_name |-> req.first_name, last_name |-> req.last_name,
     role |-> req.role, hashed_password |-> hashed, is_active |-> FALSE]

\* Users(...) as create_user builds it.
Users(req, hashed) ==
    [email |-> req.email, username |-> req.username,
     first_name |-> req.first_name, last_name |-> req.last_name,
     role |-> req.role, hashed_password |-> hashed, is_active |-> TRUE]

\* The table's unique constraints (username, email) reject `row`.
UniqueViolation(rows, row) ==
    \E x \in rows : x.username = row.username \/ x.email = row.email

(***************************************************************************)
(* State                                                                   *)
(***************************************************************************)
VARIABLES
    pc,          \* request -> where it is
    payload,     \* request -> the JSON body, once the framework has taken it
    db,          \* request -> the session get_db yielded (0: none)
    model,       \* request -> create_user_model (NoModel before it is built)
    exc,         \* request -> the exception propagating out of the handler
    ret,         \* request -> what the handler returned
    status,      \* request -> HTTP status of the response
    body,        \* request -> HTTP body of the response
    cancelled,   \* request -> it was cancelled before its response was complete
    trace,       \* request -> the session operations performed, in order
    nextSession, \* sessions SessionLocal() has made so far
    sess,        \* session -> its state
    store        \* committed rows of the users table

vars == <<pc, payload, db, model, exc, ret, status, body, cancelled, trace,
          nextSession, sess, store>>

NoSession == 0

\* A session nobody has acquired: nothing pending, never closed, never used.
FreshSession == [state |-> "none", pending |-> {}, closes |-> 0, users |-> {}]

Init ==
    /\ pc = [r \in Requests |-> "idle"]
    /\ payload = [r \in Requests |-> NoPayload]
    /\ db = [r \in Requests |-> NoSession]
    /\ model = [r \in Requests |-> NoModel]
    /\ exc = [r \in Requests |-> "none"]
    /\ ret = [r \in Requests |-> "unset"]
    /\ status = [r \in Requests |-> NoStatus]
    /\ body = [r \in Requests |-> ""]
    /\ cancelled = [r \in Requests |-> FALSE]
    /\ trace = [r \in Requests |-> <<>>]
    /\ nextSession = 0
    /\ sess = [s \in SessionIds |-> FreshSession]
    /\ store = {}


\* SessionLocal(): the process-wide factory makes a new session at every call;
\* a session is named after the request whose get_db made the call.
SessionLocal(r) == r

(***************************************************************************)
(* Helpers on sessions and the per-request log                             *)
(***************************************************************************)
\* One entry of the log: the operation and whether the session was open then.
Event(op, s) == [op |-> op, open |-> (s # NoSession /\ sess[s].state = "open")]

Log(r, op) == [trace EXCEPT ![r] = Append(@, Event(op, db[r]))]

\* The operations of a log, in order.
Ops(t) == [i \in 1 .. Len(t) |-> t[i].op]

\* What create_user returns: it falls off its end (the return is commented out).
HandlerReturnModel == "create_user_model"
HandlerReturn == "None"

\* JSONResponse's rendering of the handler's return value.
RenderJSON(v) == IF v = "None" THEN "null" ELSE "{...}"

\* The status the framework answers with.
ResponseStatus(e) ==
    IF e = "none" THEN HTTP_201_CREATED
    ELSE IF e = "RequestValidationError" THEN HTTP_422
    ELSE HTTP_500

\* The body the framework answers with.
ResponseBody(e, v) ==
    IF e = "none" THEN RenderJSON(v)
    ELSE IF e = "RequestValidationError" THEN "{\"detail\": [...]}"
    ELSE "Internal Server Error"

\* The session `s` after db.add(row) by request `r`.
SessionAdd(s, r, row) == [s EXCEPT !.pending = @ \cup {row}, !.users = @ \cup {r}]

\* The session `s` after a flush or commit that emptied it.
SessionFlushed(s, r) == [s EXCEPT !.pending = {}, !.users = @ \cup {r}]

\* The session `s` after db.close(): what was not committed is rolled back.
SessionClosed(s, r) ==
    [s EXCEPT !.state = "closed", !.pending = {}, !.closes = @ + 1,
              !.users = @ \cup {r}]

\* What db.commit() raises for the pending `rows` ("none": it succeeds);
\* `dbOk` is whether the database answers.  A database that does not answer
\* reports no constraint violation either.
CommitSwallow(rows, dbOk) == "none"
CommitRaises(rows, dbOk) ==
    IF ~dbOk THEN "OperationalError"
    ELSE IF \E row \in rows : UniqueViolation(store, row) THEN "IntegrityError"
    ELSE "none"

(***************************************************************************)
(* Actions                                                                 *)
(***************************************************************************)
\* No other request is inside create_user: the coroutine never awaits, so
\* while it runs the event loop serves nothing else; only the worker threads
\* that run get_db for other requests go on.
LoopFree(r) == \A q \in Requests \ {r} : pc[q] \notin {"hashed", "added"}

\* A POST /auth request arrives (requests are numbered in order of arrival);
\* the framework hands get_db to a worker thread and the request's task waits
\* for it.
Receive(r) ==
    /\ pc[r] = "idle"
    /\ LoopFree(r)
    /\ \A q \in Requests : q < r => pc[q] # "idle"
    /\ pc' = [pc EXCEPT ![r] = "acquire"]
    /\ UNCHANGED <<payload, db, model, exc, ret, status, body, cancelled, trace,
                   nextSession, sess, store>>

\* A broken get_db: one module-level session handed to every request.
GetDbEnterShared(r) ==
    /\ pc[r] \in {"acquire", "orphan"}
    /\ nextSession' = 1
    /\ sess' = [sess EXCEPT ![1] = [@ EXCEPT !.state = "open", !.users = @ \cup {r}]]
    /\ db' = [db EXCEPT ![r] = 1]
    /\ trace' = [trace EXCEPT ![r] = Append(@, [op |-> "acquire", open |-> TRUE])]
    /\ pc' = [pc EXCEPT ![r] = IF @ = "acquire" THEN "validate" ELSE "unfinalized"]
    /\ UNCHANGED <<payload, model, exc, ret, status, body, cancelled, store>>

\* get_db up to its yield, in the worker thread: db = SessionLocal(), a
\* session of this request's own.  The thread runs whatever the event loop
\* does, and also when the request has been cancelled meanwhile: the session
\* is then made for a request that has ended.
GetDbEnter(r) ==
    /\ pc[r] \in {"acquire", "orphan"}
    /\ LET s == SessionLocal(r) IN
        /\ nextSession' = nextSession + 1
        /\ sess' = [sess EXCEPT ![s] = [FreshSession EXCEPT !.state = "open", !.users = {r}]]
        /\ db' = [db EXCEPT ![r] = s]
        /\ trace' = [trace EXCEPT ![r] = Append(@, [op |-> "acquire", open |-> TRUE])]
    /\ pc' = [pc EXCEPT ![r] = IF @ = "acquire" THEN "validate" ELSE "unfinalized"]
    /\ UNCHANGED <<payload, model, exc, ret, status, body, cancelled, store>>

\* A broken route: the body is handed to the handler unvalidated.
ValidateSkip(r) ==
    /\ pc[r] = "validate"
    /\ LoopFree(r)
    /\ \E p \in Payloads : payload' = [payload EXCEPT ![r] = p]
    /\ pc' = [pc EXCEPT ![r] = "handler"]
    /\ UNCHANGED <<db, model, exc, ret, status, body, cancelled, trace,
                   nextSession, sess, store>>

\* With the session there, the request's JSON body is taken and validated
\* against CreateUserRequest before create_user runs.
Validate(r) ==
    /\ pc[r] = "validate"
    /\ LoopFree(r)
    /\ \E p \in Payloads :
        /\ payload' = [payload EXCEPT ![r] = p]
        /\ IF Validates(p)
           THEN /\ pc' = [pc EXCEPT ![r] = "handler"]
                /\ exc' = exc
           ELSE /\ pc' = [pc EXCEPT ![r] = "exit"]
                /\ exc' = [exc EXCEPT ![r] = "RequestValidationError"]
    /\ UNCHANGED <<db, model, ret, status, body, cancelled, trace,
                   nextSession, sess, store>>

\* The request is cancelled before the handler starts, while its task waits
\* for the worker thread or once the session is there: CancelledError leaves
\* the application, no response is sent, and the framework does not resume
\* get_db (its except clause catches Exception only).  A worker still inside
\* SessionLocal() goes on for the request that has ended.
CancelBeforeHandler(r) ==
    /\ pc[r] \in {"acquire", "validate"}
    /\ LoopFree(r)
    /\ cancelled' = [cancelled EXCEPT ![r] = TRUE]
    /\ exc' = [exc EXCEPT ![r] = "CancelledError"]
    /\ pc' = [pc EXCEPT ![r] = IF @ = "acquire" THEN "orphan" ELSE "unfinalized"]
    /\ UNCHANGED <<payload, db, model, ret, status, body, trace,
                   nextSession, sess, store>>

\* create_user starts: the record is built, with the password hashed under
\* the salt this call draws.
CreateUserHash(r) ==
    /\ pc[r] = "handler"
    /\ LoopFree(r)
    /\ LET req == CreateUserRequest(payload[r]) IN
        IF HashRaises(req.password)
        THEN /\ exc' = [exc EXCEPT ![r] = HashError(req.password)]
             /\ pc' = [pc EXCEPT ![r] = "exit"]
             /\ model' = model
        ELSE /\ \E salt \in Salts :
                model' = [model EXCEPT ![r] = Users(req, BcryptHash(req.password, salt))]
             /\ pc' = [pc EXCEPT ![r] = "hashed"]
             /\ exc' = exc
    /\ trace' = Log(r, "hash")
    /\ UNCHANGED <<payload, db, ret, status, body, cancelled, nextSession, sess, store>>

\* db.add(create_user_model): the record is pending in the session.
CreateUserAdd(r) ==
    /\ pc[r] = "hashed"
    /\ sess' = [sess EXCEPT ![db[r]] = SessionAdd(@, r, model[r])]
    /\ trace' = Log(r, "add")
    /\ pc' = [pc EXCEPT ![r] = "added"]
    /\ UNCHANGED <<payload, db, model, exc, ret, status, body, cancelled,
                   nextSession, store>>

\* db.commit(): what the session holds is written, or the commit raises; then
\* create_user falls off its end.
CreateUserCommit(r) ==
    /\ pc[r] = "added"
    /\ \E dbOk \in BOOLEAN :
        LET s == db[r]
            raised == CommitRaises(sess[s].pending, dbOk) IN
        /\ exc' = [exc EXCEPT ![r] = raised]
        /\ IF raised = "none"
           THEN /\ store' = store \cup sess[s].pending
                /\ sess' = [sess EXCEPT ![s] = SessionFlushed(@, r)]
                /\ ret' = [ret EXCEPT ![r] = HandlerReturn]
           ELSE /\ sess' = [sess EXCEPT ![s] =
                              IF raised = "IntegrityError"
                              THEN SessionFlushed(@, r)
                              ELSE [@ EXCEPT !.users = @ \cup {r}]]
                /\ UNCHANGED <<store, ret>>
    /\ trace' = Log(r, "commit")
    /\ pc' = [pc EXCEPT ![r] = "exit"]
    /\ UNCHANGED <<payload, db, model, status, body, cancelled, nextSession>>

\* A cancellation requested while the request was being handled (whatever the
\* handler did: committed, raised, or was never called) is delivered at the
\* framework's next await: CancelledError leaves the application, no response
\* is sent, and get_db is not resumed.
CancelInFlight(r) ==
    /\ pc[r] = "exit"
    /\ LoopFree(r)
    /\ cancelled' = [cancelled EXCEPT ![r] = TRUE]
    /\ pc' = [pc EXCEPT ![r] = "unfinalized"]
    /\ UNCHANGED <<payload, db, model, exc, ret, status, body, trace,
                   nextSession, sess, store>>

\* A broken get_db: commits whatever the session holds before closing it.
GetDbExitCommits(r) ==
    /\ pc[r] = "exit"
    /\ store' = store \cup sess[db[r]].pending
    /\ sess' = [sess EXCEPT ![db[r]] = SessionClosed(@, r)]
    /\ trace' = Log(r, "close")
    /\ pc' = [pc EXCEPT ![r] = "respond"]
    /\ UNCHANGED <<payload, db, model, exc, ret, status, body, cancelled,
                   nextSession>>

\* A broken get_db: closes the session without waiting for the handler.
GetDbExitEarly(r) ==
    /\ pc[r] \in {"hashed", "added", "exit"}
    /\ sess[db[r]].state = "open"
    /\ sess' = [sess EXCEPT ![db[r]] = SessionClosed(@, r)]
    /\ trace' = Log(r, "close")
    /\ pc' = [pc EXCEPT ![r] = IF @ = "exit" THEN "respond" ELSE @]
    /\ UNCHANGED <<payload, db, model, exc, ret, status, body, cancelled,
                   nextSession, store>>

\* get_db after its yield, resumed by the framework in a worker thread when
\* the handler has returned or raised: finally db.close().
GetDbExit(r) ==
    /\ pc[r] = "exit"
    /\ sess' = [sess EXCEPT ![db[r]] = SessionClosed(@, r)]
    /\ trace' = Log(r, "close")
    /\ pc' = [pc EXCEPT ![r] = "respond"]
    /\ UNCHANGED <<payload, db, model, exc, ret, status, body, cancelled,
                   nextSession, store>>

\* The response starts, after get_db has closed the session: the status line
\* and headers go out (http.response.start).
SendResponseStart(r) ==
    /\ pc[r] = "respond"
    /\ LoopFree(r)
    /\ status' = [status EXCEPT ![r] = ResponseStatus(exc[r])]
    /\ pc' = [pc EXCEPT ![r] = "body"]
    /\ UNCHANGED <<payload, db, model, exc, ret, body, cancelled, trace,
                   nextSession, sess, store>>

\* The body follows in a send of its own (http.response.body).
SendResponseBody(r) ==
    /\ pc[r] = "body"
    /\ LoopFree(r)
    /\ body' = [body EXCEPT ![r] = ResponseBody(exc[r], ret[r])]
    /\ pc' = [pc EXCEPT ![r] = "done"]
    /\ UNCHANGED <<payload, db, model, exc, ret, status, cancelled, trace,
                   nextSession, sess, store>>

\* A cancellation requested while db.close() ran: the session is closed, and
\* no response is sent.
CancelDuringClose(r) ==
    /\ pc[r] = "respond"
    /\ LoopFree(r)
    /\ cancelled' = [cancelled EXCEPT ![r] = TRUE]
    /\ pc' = [pc EXCEPT ![r] = "done"]
    /\ UNCHANGED <<payload, db, model, exc, ret, status, body, trace,
                   nextSession, sess, store>>

\* A cancellation delivered between the two sends: the status has gone out,
\* the body never does.
CancelDuringSend(r) ==
    /\ pc[r] = "body"
    /\ LoopFree(r)
    /\ cancelled' = [cancelled EXCEPT ![r] = TRUE]
    /\ pc' = [pc EXCEPT ![r] = "done"]
    /\ UNCHANGED <<payload, db, model, exc, ret, status, body, trace,
                   nextSession, sess, store>>

\* The generator of a cancelled request, which the framework never resumed, is
\* finalized once nothing refers to it: its finally runs db.close().
Finalize(r) ==
    /\ pc[r] = "unfinalized"
    /\ sess' = [sess EXCEPT ![db[r]] = SessionClosed(@, r)]
    /\ trace' = Log(r, "close")
    /\ pc' = [pc EXCEPT ![r] = "done"]
    /\ UNCHANGED <<payload, db, model, exc, ret, status, body, cancelled,
                   nextSession, store>>

Next ==
    \E r \in Requests :
        \/ Receive(r)
        \/ GetDbEnter(r)
        \/ Validate(r)
        \/ CancelBeforeHandler(r)
        \/ CreateUserHash(r)
        \/ CreateUserAdd(r)
        \/ CreateUserCommit(r)
        \/ CancelInFlight(r)
        \/ GetDbExit(r)
        \/ SendResponseStart(r)
        \/ SendResponseBody(r)
        \/ CancelDuringClose(r)
        \/ CancelDuringSend(r)
        \/ Finalize(r)

Spec == Init /\ [][Next]_vars

(***************************************************************************)
(* Properties                                                              *)
(***************************************************************************)
\* The operations request r has performed, as a set.
OpSet(r) == {trace[r][i].op : i \in 1 .. Len(trace[r])}

\* How many times request r performed `op`.
Count(r, op) == Cardinality({i \in 1 .. Len(trace[r]) : trace[r][i].op = op})

\* The body of r lacks a required field, or holds one that is no string.
Malformed(r) ==
    \E f \in RequiredFields :
        f \notin DOMAIN payload[r] \/ payload[r][f].type # "str"

\* The row carries the payload's five copied fields.
FieldsMatch(row, p) ==
    /\ row.username = p.username.v
    /\ row.email = p.email.v
    /\ row.first_name = p.first_name.v
    /\ row.last_name = p.last_name.v
    /\ row.role = p.role.v

\* Request r's db.commit() runs in this step.
CommitStep(r) == pc[r] = "added" /\ pc'[r] = "exit"

\* The framework is through with request r: it has closed the session and
\* goes on to answer, or the request was cancelled.
Ended(r) == pc[r] \in {"respond", "body", "unfinalized", "done"}

\* C1: every session get_db acquired is closed exactly once when its request
\* ends, whatever the exit path (return after commit, an exception from
\* hashing or commit, a rejected body, a cancellation); never twice, and never
\* while the request still runs.
C1_ReleasedExactlyOnce ==
    /\ \A s \in SessionIds : sess[s].closes <= 1
    /\ \A r \in Requests :
        /\ Ended(r) =>
            /\ db[r] # NoSession
            /\ sess[db[r]].state = "closed"
            /\ sess[db[r]].closes = 1
            /\ Count(r, "close") = 1
        /\ pc[r] \in {"validate", "handler", "hashed", "added", "exit"} =>
            /\ db[r] # NoSession
            /\ sess[db[r]].state = "open"
            /\ sess[db[r]].closes = 0

\* C2: under every interleaving of the requests' steps (the worker threads
\* of other requests run between a handler's hash, add and commit), each
\* request acquires exactly one session, made for it by the factory; no
\* session is ever used by a request other than its acquirer; and a session
\* holds no record but its own request's.
C2_OwnSession ==
    /\ \A s \in SessionIds : Cardinality(sess[s].users) <= 1
    /\ nextSession = Cardinality({r \in Requests : db[r] # NoSession})
    /\ \A r \in Requests :
        /\ pc[r] \notin {"idle", "acquire", "orphan"} <=> db[r] # NoSession
        /\ db[r] = NoSession => trace[r] = <<>>
        /\ db[r] # NoSession =>
            /\ sess[db[r]].users = {r}
            /\ sess[db[r]].pending \subseteq {model[r]}
            /\ Count(r, "acquire") = 1
    /\ \A r1, r2 \in Requests :
        (r1 # r2 /\ db[r1] # NoSession /\ db[r2] # NoSession) => db[r1] # db[r2]

\* C2 witness: a request is between its db.add and its db.commit, its record
\* pending in its open session, while the worker thread of a request that was
\* cancelled has made that request's session, still open.
C2_Witness ==
    \E r1, r2 \in Requests :
        /\ r1 # r2
        /\ pc[r1] = "added"
        /\ sess[db[r1]].state = "open" /\ sess[db[r1]].pending = {model[r1]}
        /\ pc[r2] = "unfinalized" /\ cancelled[r2]
        /\ Ops(trace[r2]) = <<"acquire">>
        /\ sess[db[r2]].state = "open"

\* C3: the hashed_password of every record create_user builds, and so of every
\* stored row, differs from the plaintext its request submitted and is the
\* hashing policy's output for that plaintext.
C3_NeverPlaintext ==
    /\ \A r \in Requests :
        model[r] # NoModel =>
            /\ model[r].hashed_password # payload[r].password.v
            /\ ~IsPlain(model[r].hashed_password)
            /\ BcryptVerify(payload[r].password.v, model[r].hashed_password)
    /\ \A row \in store : \E r \in Requests : row = model[r]

\* C3 witness: the rows of the spec's example and of a registration with a
\* password longer than bcrypt reads are both stored.
C3_Witness ==
    \E r1, r2 \in Requests :
        /\ model[r1] \in store /\ model[r2] \in store
        /\ payload[r1].password.v = Secret123
        /\ payload[r2].password.v = LongPassword

\* C4 as stated: a call answered 201 to its end has no body, and its row is
\* stored with the payload's fields.
C4_Original ==
    \A r \in Requests :
        (status[r] = HTTP_201_CREATED /\ pc[r] = "done" /\ ~cancelled[r]) =>
            /\ body[r] = ""
            /\ model[r] \in store
            /\ FieldsMatch(model[r], payload[r])

\* C4 amended: a handler run that succeeds adds exactly one new row, carrying
\* the payload's username, email, names and role, and leaves every other row
\* as it was; the store changes in no other way; and the response to it is
\* status 201 followed by the JSON literal null as body (the handler returns
\* None); only a request cancelled between the two has its status without a
\* body.
C4_CreatedOneRow ==
    [][ /\ \A r \in Requests :
            (CommitStep(r) /\ exc'[r] = "none") =>
                /\ model'[r] \notin store
                /\ store' = store \cup {model'[r]}
                /\ FieldsMatch(model'[r], payload[r])
        /\ store' # store => \E r \in Requests : CommitStep(r) /\ exc'[r] = "none"
        /\ \A r \in Requests :
            /\ status'[r] = HTTP_201_CREATED =>
                /\ ret'[r] = "None"
                /\ model'[r] \in store'
                /\ body'[r] \in {"", "null"}
                /\ body'[r] = "" => (pc'[r] = "body" \/ cancelled'[r])
            /\ (pc'[r] = "done" /\ exc'[r] = "none" /\ ~cancelled'[r]) =>
                (status'[r] = HTTP_201_CREATED /\ body'[r] = "null")
            /\ cancelled'[r] => body'[r] = ""
      ]_vars

\* C4 witness: the spec's example payload was answered 201 and its row stored.
C4_Witness ==
    \E r \in Requests :
        /\ payload[r] = BasePayload
        /\ pc[r] = "done" /\ ~cancelled[r]
        /\ status[r] = HTTP_201_CREATED
        /\ body[r] = "null"
        /\ model[r] \in store

\* C5: a registration that reaches db.commit() while a row with its username
\* is already committed fails there: the commit raises IntegrityError (or, if
\* the database does not answer at all, its OperationalError) and the store
\* stays as it is, with exactly one row of that username; the error is not
\* handled (the caller gets the 500 of an unhandled exception, as far as the
\* response is sent before a cancellation); rows are never removed and no two
\* rows ever share a username.
C5_DuplicateUsername ==
    [][ /\ \A r \in Requests :
            (/\ CommitStep(r)
             /\ \E x \in store : x.username = payload[r].username.v) =>
                /\ exc'[r] # "OperationalError" => exc'[r] = "IntegrityError"
                /\ ret'[r] = "unset"
                /\ store' = store
                /\ Cardinality({x \in store' : x.username = payload[r].username.v}) = 1
        /\ \A r \in Requests :
            exc[r] = "IntegrityError" =>
                /\ exc'[r] = "IntegrityError"
                /\ ret'[r] = "unset"
                /\ status'[r] \in {NoStatus, HTTP_500}
                /\ body'[r] \in {"", "Internal Server Error"}
                /\ pc'[r] = "body" => status'[r] = HTTP_500
                /\ (pc'[r] = "done" /\ ~cancelled'[r]) =>
                    (status'[r] = HTTP_500 /\ body'[r] = "Internal Server Error")
        /\ store \subseteq store'
        /\ \A x, y \in store' : x.username = y.username => x = y
      ]_vars

\* C5 witness: of two ended registrations of one username, one was stored and
\* the other was answered 500 after an IntegrityError.
C5_Witness ==
    \E r1, r2 \in Requests :
        /\ r1 # r2
        /\ pc[r1] = "done" /\ pc[r2] = "done"
        /\ model[r1] \in store
        /\ exc[r2] = "IntegrityError"
        /\ payload[r1].username = payload[r2].username
        /\ ~cancelled[r2]
        /\ status[r2] = HTTP_500
        /\ body[r2] = "Internal Server Error"
        /\ Cardinality({x \in store : x.username = payload[r2].username.v}) = 1

\* C6: a request whose body lacks a required field (or holds one that is no
\* string) never reaches the handler: nothing is hashed, added or committed
\* for it, no record is built, the only status it is ever answered with is
\* 422 (in full unless it was cancelled), and no stored row comes from it.
C6_RejectedBeforeHandler ==
    /\ \A r \in Requests :
        (payload[r] # NoPayload /\ Malformed(r)) =>
            /\ pc[r] # "handler"
            /\ model[r] = NoModel
            /\ OpSet(r) \cap {"hash", "add", "commit"} = {}
            /\ exc[r] \in {"none", "RequestValidationError", "CancelledError"}
            /\ pc[r] \in {"exit", "respond", "body"} => exc[r] = "RequestValidationError"
            /\ status[r] \in {NoStatus, HTTP_422}
            /\ pc[r] = "body" => status[r] = HTTP_422
            /\ (pc[r] = "done" /\ ~cancelled[r]) => status[r] = HTTP_422
    /\ \A row \in store :
        \E q \in Requests : row = model[q] /\ ~Malformed(q)

\* C6 witness: a body without its password was answered 422 while another
\* request's row is stored.
C6_Witness ==
    \E r \in Requests :
        /\ payload[r] = Without(BasePayload, "password")
        /\ pc[r] = "done" /\ ~cancelled[r]
        /\ status[r] = HTTP_422
        /\ store # {}

\* C7: every record create_user builds, and so every stored row, has
\* is_active true, whatever the payload held.
C7_ActiveFlag ==
    /\ \A r \in Requests : model[r] # NoModel => model[r].is_active = TRUE
    /\ \A row \in store : row.is_active = TRUE

\* C7 witness: a stored row whose payload said is_active: false.
C7_Witness ==
    \E r \in Requests :
        /\ model[r] \in store
        /\ "is_active" \in DOMAIN payload[r]
        /\ payload[r].is_active.bool = FALSE

\* C9: a request changes the store only by a db.commit() of its own that
\* succeeds, which writes its record; a commit that raises, the release of the
\* session and every other step leave the committed rows exactly as they
\* were; a closed session holds nothing pending; every stored row comes from
\* a request whose commit succeeded.
C9_NoUncommittedLeak ==
    [][ /\ \A r \in Requests :
            (CommitStep(r) /\ exc'[r] # "none") => store' = store
        /\ store' # store =>
            \E r \in Requests :
                /\ CommitStep(r) /\ exc'[r] = "none"
                /\ store' = store \cup {model[r]}
        /\ \A r \in Requests :
            (db'[r] # NoSession /\ sess'[db'[r]].state = "closed") =>
                sess'[db'[r]].pending = {}
        /\ \A row \in store' :
            \E r \in Requests :
                /\ row = model'[r] /\ exc'[r] = "none"
                /\ \E i \in 1 .. Len(trace'[r]) : trace'[r][i].op = "commit"
      ]_vars

\* C9 witness: a request whose commit failed after db.add has ended with its
\* session closed and emptied, and its record is not stored, while another's
\* is.
C9_Witness ==
    \E r \in Requests :
        /\ pc[r] = "done"
        /\ exc[r] = "OperationalError"
        /\ Ops(trace[r]) = <<"acquire", "hash", "add", "commit", "close">>
        /\ model[r] \notin store
        /\ sess[db[r]].state = "closed" /\ sess[db[r]].pending = {}
        /\ store # {}

\* The place of an operation in a request.
Rank(op) ==
    CASE op = "acquire" -> 1
      [] op = "hash" -> 2
      [] op = "add" -> 3
      [] op = "commit" -> 4
      [] op = "close" -> 5

\* C10: a request's operations occur in the order acquire, hash, add, commit,
\* close, each at most once, whatever other requests do in between; hash, add
\* and commit find the session open; the session stays open from its
\* acquisition until the handler has finished, so the close never comes
\* between hash, add and commit.
C10_StepOrder ==
    \A r \in Requests :
        LET t == trace[r] IN
        /\ \A i, j \in 1 .. Len(t) : i < j => Rank(t[i].op) < Rank(t[j].op)
        /\ Len(t) > 0 => t[1].op = "acquire"
        /\ "add" \in OpSet(r) => "hash" \in OpSet(r)
        /\ "commit" \in OpSet(r) => "add" \in OpSet(r)
        /\ \A i \in 1 .. Len(t) : t[i].open
        /\ "close" \in OpSet(r) => pc[r] \in {"respond", "body", "done"}
        /\ pc[r] \in {"validate", "handler", "hashed", "added", "exit"} =>
            (sess[db[r]].state = "open" /\ "close" \notin OpSet(r))
        /\ pc[r] = "hashed" => Ops(t) = <<"acquire", "hash">>
        /\ pc[r] = "added" => Ops(t) = <<"acquire", "hash", "add">>

\* C10 witness: one request has gone through all five operations while
\* another stands between its db.add and its db.commit, its session open.
C10_Witness ==
    \E r1, r2 \in Requests :
        /\ r1 # r2
        /\ Ops(trace[r1]) = <<"acquire", "hash", "add", "commit", "close">>
        /\ pc[r2] = "added"
        /\ sess[db[r2]].state = "open"

=============================================================================
